---- MODULE Spec2Model ----
\* DOM-to-PDF export engine of ContaCoop-frontend (src/src/lib/pdf-export.ts):
\* exportToPdf and exportViewToPdf as state machines over one invocation,
\* with the page geometry computed in JavaScript Number arithmetic.
EXTENDS Integers, Sequences, FiniteSets, TLC

\* ---------------------------------------------------------------------
\* Bounds of the explored inputs
\* ---------------------------------------------------------------------
\* Every bitmap of MaxW x MaxH pixels or less is explored, together with
\* the bitmaps of SpecialBitmaps.
MaxW == 2
MaxH == 4
\* Most pages a document is followed to.
MaxPages == 8

\* ---------------------------------------------------------------------
\* JavaScript Number arithmetic
\* ---------------------------------------------------------------------
\* A JavaScript Number is an IEEE-754 binary64 value.  The finite values the
\* export code computes are held exactly as a sign and a magnitude counted in
\* units of 2^-(LimbBits*FracLimbs); the magnitude is a little-endian sequence
\* of limbs below Base without leading zero limbs (<<>> is 0).  Every
\* arithmetic operator computes the exact result and rounds it to MantBits
\* significant bits, ties to even, as the hardware does.
LimbBits == 14
Base == 16384
FracLimbs == 9
MantBits == 53

\* Bind1/Bind2 evaluate their first arguments once and hand the values to
\* F, so that an intermediate result is never computed twice.
Bind1(a, F(_)) == CHOOSE r \in {F(x) : x \in {a}} : TRUE
Bind2(a, b, F(_, _)) == CHOOSE r \in {F(x, y) : x \in {a}, y \in {b}} : TRUE

Pow2Table == <<1, 2, 4, 8, 16, 32, 64, 128, 256, 512, 1024, 2048, 4096, 8192, 16384>>
Pow2(n) == Pow2Table[n + 1]

Limb(a, k) == IF k >= 1 /\ k <= Len(a) THEN a[k] ELSE 0
MaxLen(a, b) == IF Len(a) >= Len(b) THEN Len(a) ELSE Len(b)

\* Index of the most and of the least significant non-zero limb (0 if none).
TopIdx(a) ==
    IF \A k \in 1..Len(a) : a[k] = 0 THEN 0
    ELSE CHOOSE k \in 1..Len(a) : a[k] # 0 /\ \A j \in (k + 1)..Len(a) : a[j] = 0
LowIdx(a) ==
    IF \A k \in 1..Len(a) : a[k] = 0 THEN 0
    ELSE CHOOSE k \in 1..Len(a) : a[k] # 0 /\ \A j \in 1..(k - 1) : a[j] = 0

Trim(a) == Bind1(a \o <<>>, LAMBDA s : SubSeq(s, 1, TopIdx(s)))
ShiftLimbs(a, n) ==
    Bind1(a, LAMBDA s : IF Len(s) = 0 THEN <<>> ELSE [k \in 1..n |-> 0] \o s)
DropLimbs(a, n) ==
    Bind1(a, LAMBDA s : IF Len(s) <= n THEN <<>> ELSE SubSeq(s, n + 1, Len(s)))

IntToBig(n) ==
    Bind1(n, LAMBDA v : Trim(<<v % Base, (v \div Base) % Base, v \div (Base * Base)>>))
BigToInt(a) == Bind1(a, LAMBDA s : Limb(s, 1) + Base * Limb(s, 2))

\* Carry into limb k of a + b: some lower limb generates a carry and every
\* limb in between passes it on.
CarryIn(a, b, k) ==
    IF \E j \in 1..(k - 1) :
          /\ Limb(a, j) + Limb(b, j) >= Base
          /\ \A m \in (j + 1)..(k - 1) : Limb(a, m) + Limb(b, m) >= Base - 1
    THEN 1 ELSE 0

BigAdd(a, b) ==
    Bind2(a, b, LAMBDA x, y :
        Trim([k \in 1..(MaxLen(x, y) + 1) |->
                (Limb(x, k) + Limb(y, k) + CarryIn(x, y, k)) % Base]))

\* Borrow from limb k of a - b, for a >= b.
BorrowIn(a, b, k) ==
    IF \E j \in 1..(k - 1) :
          /\ Limb(a, j) < Limb(b, j)
          /\ \A m \in (j + 1)..(k - 1) : Limb(a, m) <= Limb(b, m)
    THEN 1 ELSE 0

BigSub(a, b) ==
    Bind2(a, b, LAMBDA x, y :
        Trim([k \in 1..Len(x) |->
                (Limb(x, k) - Limb(y, k) - BorrowIn(x, y, k) + Base) % Base]))

BigCmp(a, b) ==
    Bind2(a, b, LAMBDA x, y :
        Bind1({k \in 1..MaxLen(x, y) : Limb(x, k) # Limb(y, k)}, LAMBDA diff :
            IF diff = {} THEN 0
            ELSE Bind1(CHOOSE k \in diff : \A j \in diff : j <= k, LAMBDA top :
                     IF Limb(x, top) > Limb(y, top) THEN 1 ELSE -1)))

\* Column k of the schoolbook product: the low halves of the limb products
\* of weight k plus the high halves of those of weight k - 1.
RECURSIVE ColSum(_, _, _, _)
ColSum(a, b, k, j) ==
    IF j > Len(b) THEN 0
    ELSE ((Limb(a, k + 1 - j) * b[j]) % Base)
         + ((Limb(a, k - j) * b[j]) \div Base)
         + ColSum(a, b, k, j + 1)

BigMul(a, b) ==
    Bind2(a, b, LAMBDA x, y :
        IF Len(x) = 0 \/ Len(y) = 0 THEN <<>>
        ELSE Bind2([k \in 1..(Len(x) + Len(y)) |-> k], LowIdx(y), LAMBDA ks, low :
               Bind1([k \in 1..Len(ks) |-> ColSum(x, y, k, low)] \o <<>>, LAMBDA cols :
                 BigAdd([k \in 1..Len(cols) |-> cols[k] % Base] \o <<>>,
                        <<0>> \o [k \in 1..Len(cols) |-> cols[k] \div Base]))))

\* (x * Base^n) % y
RECURSIVE RemAt(_, _, _)
RemAt(x, y, n) == IF n = 0 THEN x % y ELSE (RemAt(x, y, n - 1) * Base) % y

\* floor(x * Base^FracLimbs / y) for integers 0 <= x and 0 < y < Base
BigQuot(x, y) ==
    Bind2(x, y, LAMBDA p, q :
        Trim([k \in 1..FracLimbs |-> (RemAt(p, q, FracLimbs - k) * Base) \div q]
             \o <<(p \div q) % Base, (p \div q) \div Base>>))

IntBits(v) == CHOOSE n \in 0..LimbBits : v < Pow2(n) /\ (n = 0 \/ v >= Pow2(n - 1))
BitLen(a) == IF Len(a) = 0 THEN 0 ELSE (Len(a) - 1) * LimbBits + IntBits(a[Len(a)])
Bit(a, p) == (Limb(a, (p \div LimbBits) + 1) \div Pow2(p % LimbBits)) % 2

LowZero(a, p) ==
    /\ \A k \in 1..(p \div LimbBits) : Limb(a, k) = 0
    /\ Limb(a, (p \div LimbBits) + 1) % Pow2(p % LimbBits) = 0

ClearLow(a, p) ==
    Trim([k \in 1..Len(a) |->
            IF k <= p \div LimbBits THEN 0
            ELSE IF k = (p \div LimbBits) + 1
                 THEN a[k] - (a[k] % Pow2(p % LimbBits))
                 ELSE a[k]])

BigPow2(p) == [k \in 1..(p \div LimbBits) |-> 0] \o <<Pow2(p % LimbBits)>>

\* Round a magnitude to MantBits significant bits, ties to even; sticky tells
\* that the exact value lies strictly above the magnitude given.
RoundMant(a, sticky) ==
    Bind2(a, sticky, LAMBDA m, st :
        Bind1(BitLen(m) - MantBits, LAMBDA d :
            IF d <= 0 THEN m
            ELSE LET guard == Bit(m, d - 1) = 1
                     rest  == st \/ ~LowZero(m, d - 1)
                     odd   == Bit(m, d) = 1
                 IN  IF guard /\ (rest \/ odd)
                     THEN BigAdd(ClearLow(m, d), BigPow2(d))
                     ELSE ClearLow(m, d)))

Zero == [neg |-> FALSE, mag |-> <<>>]
\* The two Numbers that are not finite, as the bitmap of a zero-width element
\* produces them (190 / 0 and 0 * Infinity).
Infinity == [neg |-> FALSE, mag |-> <<-1>>]
NaN == [neg |-> FALSE, mag |-> <<-2>>]
Num(n) ==
    Bind1(n, LAMBDA v :
        [neg |-> v < 0, mag |-> ShiftLimbs(IntToBig(IF v < 0 THEN -v ELSE v), FracLimbs)])

\* x / y for integers x >= 0, y >= 0
NumDivInt(x, y) ==
    Bind2(x, y, LAMBDA p, q :
        IF q = 0
        THEN IF p = 0 THEN NaN ELSE Infinity
        ELSE [neg |-> FALSE, mag |-> RoundMant(BigQuot(p, q), RemAt(p, q, FracLimbs) # 0)])

NumMul(x, y) ==
    Bind2(x, y, LAMBDA p, q :
        IF p = Infinity \/ q = Infinity
        THEN IF p = Zero \/ q = Zero THEN NaN ELSE Infinity
        ELSE
        Bind1(DropLimbs(RoundMant(BigMul(p.mag, q.mag), FALSE), FracLimbs), LAMBDA m :
            [neg |-> Len(m) # 0 /\ p.neg # q.neg, mag |-> m]))

NumNeg(x) == Bind1(x, LAMBDA p : [neg |-> Len(p.mag) # 0 /\ ~p.neg, mag |-> p.mag])

NumAdd(x, y) ==
    Bind2(x, y, LAMBDA p, q :
        IF p.neg = q.neg
        THEN [neg |-> p.neg, mag |-> RoundMant(BigAdd(p.mag, q.mag), FALSE)]
        ELSE Bind1(BigCmp(p.mag, q.mag), LAMBDA c :
               IF c = 0 THEN Zero
               ELSE IF c > 0
                    THEN [neg |-> p.neg, mag |-> RoundMant(BigSub(p.mag, q.mag), FALSE)]
                    ELSE [neg |-> q.neg, mag |-> RoundMant(BigSub(q.mag, p.mag), FALSE)]))

NumSub(x, y) == NumAdd(x, NumNeg(y))

NumLt(x, y) ==
    Bind2(x, y, LAMBDA p, q :
        IF q = Infinity THEN p # Infinity
        ELSE IF p = Infinity THEN FALSE
        ELSE IF p.neg /\ ~q.neg THEN TRUE
        ELSE IF ~p.neg /\ q.neg THEN FALSE
        ELSE IF p.neg THEN BigCmp(p.mag, q.mag) > 0
        ELSE BigCmp(p.mag, q.mag) < 0)

NumGt(x, y) == NumLt(y, x)
NumLe(x, y) == ~NumLt(y, x)
MathMin(x, y) == Bind2(x, y, LAMBDA p, q : IF NumLt(q, p) THEN q ELSE p)
Trunc(x) ==
    Bind1(x, LAMBDA p :
        Bind1(BigToInt(DropLimbs(p.mag, FracLimbs)), LAMBDA n : IF p.neg THEN -n ELSE n))

\* The value a canvas dimension takes when a Number is assigned to it: the
\* WebIDL unsigned long conversion drops the fraction.
CanvasDim(x) == Trunc(x)

\* ---------------------------------------------------------------------
\* Inputs
\* ---------------------------------------------------------------------
ElementIds == {"balance-sheet-content", "cash-flow-content"}
\* An element laid out with no width: its bitmap has pixel width 0.
CollapsedElementIds == {"collapsed-content"}
Filenames == {"balance-general-2024-3"}
Titles == {"", "Balance General"}
Subtitles == {"", "Cooperativa X"}

\* Bitmaps the rasterizer may return (pixel width, pixel height).
SpecialBitmaps ==
    { <<1000, 3000>>,                  \* the end-to-end scenario
      <<190, 272>>, <<10, 13>>,        \* scaledImgHeight = firstPageContentHeight
      <<190, 277>>, <<277, 190>>,      \* scaledHeight = effectiveContentHeight
      <<95, 476>>, <<190, 927>>,       \* remainder of 2.5 page budgets
      <<171, 1224>>,                   \* remainder of 4 page budgets
      <<3, 2>>, <<11, 10>>, <<6, 5>>,  \* aspect ratios 1.5, 1.1 and 1.2
      <<4, 3>>,                        \* landscape and more than one page
      <<330, 429>> }                   \* multi-page path whose loop body never runs

Bitmaps == ((1..MaxW) \X (1..MaxH)) \cup SpecialBitmaps

\* ---------------------------------------------------------------------
\* The jsPDF document
\* ---------------------------------------------------------------------
EmptyPage == [images |-> <<>>, texts |-> <<>>]
NoPdf == [orientation |-> "none", pages |-> <<>>, cur |-> 0]
NewPdf(orientation) == [orientation |-> orientation, pages |-> <<EmptyPage>>, cur |-> 1]
AddPage(doc) == [doc EXCEPT !.pages = Append(@, EmptyPage), !.cur = Len(doc.pages) + 1]
SetPage(doc, n) == [doc EXCEPT !.cur = n]
GetNumberOfPages(doc) == Len(doc.pages)
PdfText(doc, t) == [doc EXCEPT !.pages[doc.cur].texts = Append(@, t)]
AddImage(doc, img) == [doc EXCEPT !.pages[doc.cur].images = Append(@, img)]

TextItem(kind, s, a, b, x, y) == [kind |-> kind, s |-> s, a |-> a, b |-> b, x |-> x, y |-> y]
Image(sy, rows, x, y, w, h) == [sy |-> sy, rows |-> rows, x |-> x, y |-> y, w |-> w, h |-> h]
Slice(pageIndex, sy, rows, placed) == [pageIndex |-> pageIndex, sy |-> sy, rows |-> rows, placed |-> placed]

\* ---------------------------------------------------------------------
\* exportToPdf: page geometry
\* ---------------------------------------------------------------------
pdfWidth == 210
pdfHeight == 297
marginX == 10
marginTop == 10
marginBottom == 15
contentWidth == pdfWidth - 2 * marginX

HeaderHeight_noSubtitle(opts) ==
    marginTop + (IF opts.title # "" THEN 15 ELSE 0)

HeaderHeight(opts) ==
    marginTop + (IF opts.title # "" THEN 15 ELSE 0)
              + (IF opts.subtitle # "" THEN 10 ELSE 0)

FirstPageContentHeight(opts) == pdfHeight - HeaderHeight(opts) - marginBottom
otherPageContentHeight == pdfHeight - marginTop - marginBottom

Scale(cv) == NumDivInt(contentWidth, cv.width)
ScaledImgHeight(cv, sc) == NumMul(Num(cv.height), sc)
NeedsMultiplePages_ge(scaledImgHeight, opts) ==
    NumLe(Num(FirstPageContentHeight(opts)), scaledImgHeight)
NeedsMultiplePages(scaledImgHeight, opts) ==
    NumGt(scaledImgHeight, Num(FirstPageContentHeight(opts)))
PixelsPerMm(cv) == NumDivInt(cv.width, contentWidth)
FirstPagePixelHeight(ppm, opts) ==
    NumMul(Num(FirstPageContentHeight(opts)), ppm)
PagePixelHeight_noMin(ppm, remaining) ==
    NumMul(Num(otherPageContentHeight), ppm)

PagePixelHeight(ppm, remaining) ==
    MathMin(NumMul(Num(otherPageContentHeight), ppm), remaining)

\* addHeader: the texts drawn on the current page and the y it returns.
AddHeaderTexts_dateIfTitled(doc, pageNum, opts) ==
    LET yTitle == marginTop
        d1 == IF pageNum = 1 /\ opts.title # ""
              THEN PdfText(doc, TextItem("title", opts.title, 0, 0, marginX, yTitle + 10))
              ELSE doc
        ySub == IF pageNum = 1 /\ opts.title # "" THEN yTitle + 15 ELSE yTitle
        d2 == IF pageNum = 1 /\ opts.subtitle # ""
              THEN PdfText(d1, TextItem("subtitle", opts.subtitle, 0, 0, marginX, ySub))
              ELSE d1
    IN  IF pageNum = 1 /\ opts.title # ""
        THEN PdfText(d2, TextItem("date", "Generado: {date}", 0, 0,
                                  pdfWidth - marginX - 50, marginTop + 5))
        ELSE d2

AddHeaderTexts(doc, pageNum, opts) ==
    LET yTitle == marginTop
        d1 == IF pageNum = 1 /\ opts.title # ""
              THEN PdfText(doc, TextItem("title", opts.title, 0, 0, marginX, yTitle + 10))
              ELSE doc
        ySub == IF pageNum = 1 /\ opts.title # "" THEN yTitle + 15 ELSE yTitle
        d2 == IF pageNum = 1 /\ opts.subtitle # ""
              THEN PdfText(d1, TextItem("subtitle", opts.subtitle, 0, 0, marginX, ySub))
              ELSE d1
    IN  IF pageNum = 1
        THEN PdfText(d2, TextItem("date", "Generado: {date}", 0, 0,
                                  pdfWidth - marginX - 50, marginTop + 5))
        ELSE d2

AddHeaderY_top(pageNum, opts) == marginTop

AddHeaderY_noSubtitle(pageNum, opts) ==
    IF pageNum = 1
    THEN marginTop + (IF opts.title # "" THEN 15 ELSE 0)
    ELSE marginTop

AddHeaderY(pageNum, opts) ==
    IF pageNum = 1
    THEN marginTop + (IF opts.title # "" THEN 15 ELSE 0)
                   + (IF opts.subtitle # "" THEN 10 ELSE 0)
    ELSE marginTop

FooterText(pageNum, totalPages) ==
    TextItem("footer", "ContaCoop - Pagina {a} de {b}", pageNum, totalPages,
             pdfWidth \div 2, pdfHeight - 5)

AddFooter_noSetPage(doc, pageNum, totalPages) ==
    PdfText(doc, FooterText(pageNum, totalPages))

AddFooter(doc, pageNum, totalPages) ==
    PdfText(SetPage(doc, pageNum), FooterText(pageNum, totalPages))

SaveName(filename) == <<filename, ".pdf">>

\* ---------------------------------------------------------------------
\* exportViewToPdf: page geometry
\* ---------------------------------------------------------------------
margin == 10

IsLandscape_ge(cv) == NumLe(NumDivInt(12, 10), NumDivInt(cv.width, cv.height))
IsLandscape(cv) == NumGt(NumDivInt(cv.width, cv.height), NumDivInt(12, 10))
EffectivePdfWidth(cv) == IF IsLandscape(cv) THEN pdfHeight ELSE pdfWidth
EffectivePdfHeight(cv) == IF IsLandscape(cv) THEN pdfWidth ELSE pdfHeight
EffectiveContentWidth(cv) == EffectivePdfWidth(cv) - 2 * margin
EffectiveContentHeight(cv) == EffectivePdfHeight(cv) - 2 * margin
ViewScale(cv) == NumDivInt(EffectiveContentWidth(cv), cv.width)
ViewScaledHeight(cv, sc) == NumMul(Num(cv.height), sc)
ViewFitsOnePage(cv, scaledHeight) == NumLe(scaledHeight, Num(EffectiveContentHeight(cv)))
ViewPixelsPerMm(cv) == NumDivInt(cv.width, EffectiveContentWidth(cv))
ViewPagePixelHeight(cv, ppm, remaining) ==
    MathMin(NumMul(Num(EffectiveContentHeight(cv)), ppm), remaining)

\* ---------------------------------------------------------------------
\* Errors
\* ---------------------------------------------------------------------
NoError == [kind |-> "none", message |-> <<>>]
ElementNotFoundById_fixed(id) ==
    [kind |-> "Error", message |-> <<"Element with ID \"", "balance-sheet-content", "\" not found">>]
ElementNotFoundById(id) == [kind |-> "Error", message |-> <<"Element with ID \"", id, "\" not found">>]
ElementNotFoundBySelector(sel) == [kind |-> "Error", message |-> <<"Element not found: ", sel>>]
CaptureError == [kind |-> "html2canvas", message |-> <<"capture failed">>]
ImageError == [kind |-> "jsPDF", message |-> <<"addImage failed">>]
TextError == [kind |-> "jsPDF", message |-> <<"text failed">>]
SaveError == [kind |-> "jsPDF", message |-> <<"save failed">>]

\* ---------------------------------------------------------------------
\* Report pages: the state of a mounted page and of the contexts it reads
\* ---------------------------------------------------------------------
PageNames == {"BalanceSheet", "CashFlow", "CooperativeFees", "MembershipFees",
              "FinancialRatios"}
\* selectedPeriod is an object {year, month} or null.
NoPeriod == [year |-> 0, month |-> 0]
Periods == {[year |-> 2024, month |-> 3], [year |-> 2024, month |-> 4]}
\* selectedCooperative, by its name.
Cooperatives == {"Cooperativa X", "Cooperativa Y"}
\* What the financial API answers with: no rows, or some rows.
Responses == {"empty", "rows"}
Sections == {"assets", "liabilities", "equity"}
SearchTerms == {"", "a"}
StatusFilters == {"all", "with-debt"}
\* Most requests of one kind that are pending at the same time, and most
\* exportToPdf calls counted as pending.
MaxFetches == 1
MaxInFlight == 2
\* Most requests of the data effect followed one by one (FetchSpec).
MaxOverlap == 2
\* Bitmaps of a report region: one that fits a page, one that needs several.
PageBitmaps == {<<1, 1>>, <<1, 2>>}

ElementIdOf(p) ==
    CASE p = "BalanceSheet" -> "balance-sheet-content"
      [] p = "CashFlow" -> "cash-flow-content"
      [] p = "CooperativeFees" -> "cooperative-fees-content"
      [] p = "MembershipFees" -> "membership-fees-content"
      [] p = "FinancialRatios" -> "financial-ratios-content"
TitleOf(p) ==
    CASE p = "BalanceSheet" -> "Balance General"
      [] p = "CashFlow" -> "Estado de Flujo de Caja"
      [] p = "CooperativeFees" -> "Cuotas Sociales"
      [] p = "MembershipFees" -> "Cuotas de Socios"
      [] p = "FinancialRatios" -> "Ratios Financieros"
FilePrefixOf(p) ==
    CASE p = "BalanceSheet" -> "balance-general"
      [] p = "CashFlow" -> "flujo-caja"
      [] p = "CooperativeFees" -> "cuotas-cooperativa"
      [] p = "MembershipFees" -> "cuotas-socios"
      [] p = "FinancialRatios" -> "ratios-financieros"
\* `${prefix}-${selectedPeriod.year}-${selectedPeriod.month}`
FilenameOf(p, period) ==
    FilePrefixOf(p) \o "-" \o ToString(period.year) \o "-" \o ToString(period.month)
\* formatPeriod() belongs to the period context; only the pages that call it
\* put the period into the subtitle.
SubtitleOf(p, period, coop) ==
    IF p \in {"BalanceSheet", "CashFlow", "MembershipFees"}
    THEN ToString(period.month) \o "/" \o ToString(period.year) \o " - " \o coop
    ELSE coop
ExportOptions(p, period, coop) ==
    [filename |-> FilenameOf(p, period), title |-> TitleOf(p),
     subtitle |-> SubtitleOf(p, period, coop)]

\* ---------------------------------------------------------------------
\* State
\* ---------------------------------------------------------------------
VARIABLES
    fn,                    \* the exported function that was invoked
    elementId,             \* elementId / containerSelector argument
    present,               \* whether the argument resolves to an element
    options,               \* filename, title, subtitle ("" is absent)
    pc,                    \* position of the invocation
    canvas,                \* the bitmap html2canvas resolved with
    captureCalls,          \* number of html2canvas calls
    scale,                 \* mm per bitmap pixel
    scaledImgHeight,       \* height of the whole bitmap on paper, in mm
    pixelsPerMm,           \* bitmap pixels per mm (multi-page path)
    pdf,                   \* the jsPDF document
    remainingPixelHeight,
    currentPixelY,
    pageNum,
    isFirstPage,
    totalPages,
    i,                     \* index of the footer loop
    slices,                \* the slice canvases created so far
    saveCalls,             \* number of pdf.save calls
    saved,                 \* names of the files saved
    error,                 \* the error the invocation rejected with
    mounted,                  \* the mounted report page, "none" without one
    hpc,                   \* position of the latest handleExportPdf run
    selectedPeriod,        \* usePeriod().selectedPeriod
    selectedCooperative,   \* useCooperative().selectedCooperative
    isLoading,
    fetches,               \* requests of the data effect still pending
    data,                  \* rows the page holds (balanceData, fees, ratios...)
    historyFetches,        \* CashFlow: getCashFlowHistory requests pending
    historyData,           \* CashFlow: historyData
    isExporting,           \* the Excel export is pending
    isExportingPdf,
    inFlight,              \* exportToPdf calls of the page still pending
    toasts,                \* notifications of the latest handleExportPdf run
    expandedSections,      \* BalanceSheet: the sections shown expanded
    searchTerm,            \* MembershipFees
    statusFilter,          \* MembershipFees
    requests,              \* FetchSpec: the pending requests of the data effect,
                           \* each with the selection it was started for
    dataOf,                \* FetchSpec: the selection whose answer is in data
    parked,                \* the other of two invocations in flight
    turn                   \* which of the two invocations runs

vars == <<fn, elementId, present, options, pc, canvas, captureCalls,
          scale, scaledImgHeight, pixelsPerMm, pdf,
          remainingPixelHeight, currentPixelY, pageNum, isFirstPage,
          totalPages, i, slices, saveCalls, saved, error,
          mounted, hpc, selectedPeriod, selectedCooperative, isLoading, fetches,
          data, historyFetches, historyData, isExporting, isExportingPdf,
          inFlight, toasts, expandedSections, searchTerm, statusFilter,
          requests, dataOf, parked, turn>>

inputs == <<fn, elementId, present, options>>
geoVars == <<scale, scaledImgHeight, pixelsPerMm>>
loopVars == <<remainingPixelHeight, currentPixelY, pageNum, isFirstPage>>
footerVars == <<totalPages, i>>
outVars == <<saveCalls, saved>>
requestVars == <<requests, dataOf>>
pageVars == <<mounted, hpc, selectedPeriod, selectedCooperative, isLoading, fetches,
              data, historyFetches, historyData, isExporting, isExportingPdf,
              inFlight, toasts, expandedSections, searchTerm, statusFilter>>
engineVars == <<inputs, pc, canvas, captureCalls, geoVars, pdf, loopVars,
                footerVars, slices, outVars, error>>

\* No request is followed.
NoRequest == [period |-> NoPeriod, cooperative |-> ""]
NoRequests == requests = <<>> /\ dataOf = NoRequest

\* No page is mounted: exportToPdf / exportViewToPdf are called directly.
NoPage ==
    /\ mounted = "none"
    /\ hpc = "idle"
    /\ selectedPeriod = NoPeriod
    /\ selectedCooperative = "Cooperativa X"
    /\ isLoading = FALSE
    /\ fetches = 0
    /\ data = "empty"
    /\ historyFetches = 0
    /\ historyData = "empty"
    /\ isExporting = FALSE
    /\ isExportingPdf = FALSE
    /\ inFlight = 0
    /\ toasts = <<>>
    /\ expandedSections = Sections
    /\ searchTerm = ""
    /\ statusFilter = "all"

\* The bitmaps html2canvas may resolve with.
RenderedBitmaps ==
    IF elementId \in CollapsedElementIds THEN {<<0, h>> : h \in 1..MaxH}
    ELSE IF mounted = "none" /\ turn = 0 THEN Bitmaps ELSE PageBitmaps

\* Two invocations of exportToPdf at a time: the variables above are those
\* of the invocation that runs, parked holds those of the other one, and
\* turn tells which of the two runs (0: there is only one invocation).
pairVars == <<parked, turn>>

Locals ==
    [elementId |-> elementId, present |-> present, options |-> options,
     pc |-> pc, canvas |-> canvas, captureCalls |-> captureCalls,
     scale |-> scale, scaledImgHeight |-> scaledImgHeight,
     pixelsPerMm |-> pixelsPerMm, pdf |-> pdf,
     remainingPixelHeight |-> remainingPixelHeight,
     currentPixelY |-> currentPixelY, pageNum |-> pageNum,
     isFirstPage |-> isFirstPage, totalPages |-> totalPages, i |-> i,
     slices |-> slices, saveCalls |-> saveCalls, error |-> error]

\* An invocation that has not run a step yet.
NewLocals(id, found, opts) ==
    [elementId |-> id, present |-> found, options |-> opts,
     pc |-> "start", canvas |-> [width |-> 0, height |-> 0], captureCalls |-> 0,
     scale |-> Zero, scaledImgHeight |-> Zero, pixelsPerMm |-> Zero, pdf |-> NoPdf,
     remainingPixelHeight |-> Zero, currentPixelY |-> Zero, pageNum |-> 0,
     isFirstPage |-> TRUE, totalPages |-> 0, i |-> 0, slices |-> <<>>,
     saveCalls |-> 0, error |-> NoError]

NoPair ==
    /\ turn = 0
    /\ parked = NewLocals("", FALSE, [filename |-> "", title |-> "", subtitle |-> ""])

InvocationInit(ids) ==
    /\ fn \in {"exportToPdf", "exportViewToPdf"}
    /\ elementId \in ids
    /\ present \in BOOLEAN
    /\ options \in [filename : Filenames, title : Titles, subtitle : Subtitles]
    /\ fn = "exportViewToPdf" => options.title = "" /\ options.subtitle = ""
    /\ pc = "start"
    /\ canvas = [width |-> 0, height |-> 0]
    /\ captureCalls = 0
    /\ scale = Zero
    /\ scaledImgHeight = Zero
    /\ pixelsPerMm = Zero
    /\ pdf = NoPdf
    /\ remainingPixelHeight = Zero
    /\ currentPixelY = Zero
    /\ pageNum = 0
    /\ isFirstPage = TRUE
    /\ totalPages = 0
    /\ i = 0
    /\ slices = <<>>
    /\ saveCalls = 0
    /\ saved = <<>>
    /\ error = NoError
    /\ NoPage
    /\ NoPair
    /\ NoRequests

Init == InvocationInit(ElementIds)

\* The invocation rejects with err; nothing else runs afterwards.
Raise_swallow(err) ==
    /\ pc' = "save"
    /\ error' = err

Raise_generic(err) ==
    /\ pc' = "raised"
    /\ error' = [kind |-> "Error", message |-> <<"Error generating PDF">>]

Raise(err) ==
    /\ pc' = "raised"
    /\ error' = err

\* Outcomes of cropping one slice and placing it: the 2D context may be null
\* (the slice is skipped), and toDataURL / addImage may throw.
\* drawImage raises InvalidStateError when its source canvas has width 0.
SliceOutcomes ==
    IF canvas.width = 0 THEN {"nullctx", "throws"} ELSE {"placed", "nullctx", "throws"}

\* ---------------------------------------------------------------------
\* exportToPdf
\* ---------------------------------------------------------------------
E_Lookup ==
    /\ fn = "exportToPdf" /\ pc = "start"
    /\ IF present
       THEN pc' = "capture" /\ error' = error
       ELSE Raise(ElementNotFoundById(elementId))
    /\ UNCHANGED <<requestVars, pairVars, pageVars, inputs, geoVars, canvas, captureCalls, pdf, loopVars, footerVars,
                   slices, outVars>>

E_Capture ==
    /\ fn = "exportToPdf" /\ pc = "capture"
    /\ captureCalls' = captureCalls + 1
    /\ \/ \E bm \in RenderedBitmaps :
            /\ canvas' = [width |-> bm[1], height |-> bm[2]]
            /\ pc' = "geometry"
            /\ error' = error
       \/ /\ Raise(CaptureError)
          /\ canvas' = canvas
    /\ UNCHANGED <<requestVars, pairVars, pageVars, inputs, geoVars, pdf, loopVars, footerVars, slices, outVars>>

E_Geometry ==
    /\ fn = "exportToPdf" /\ pc = "geometry"
    /\ scale' = Scale(canvas)
    /\ scaledImgHeight' = ScaledImgHeight(canvas, scale')
    /\ pdf' = NewPdf("portrait")
    /\ pc' = IF NeedsMultiplePages(scaledImgHeight', options) THEN "first" ELSE "single"
    /\ UNCHANGED <<requestVars, pairVars, pageVars, inputs, pixelsPerMm, canvas, captureCalls, loopVars,
                   footerVars, slices, outVars, error>>

E_SinglePage ==
    /\ fn = "exportToPdf" /\ pc = "single"
    /\ LET withHeader == AddHeaderTexts(pdf, 1, options)
           yStart == AddHeaderY(1, options)
       IN  \/ /\ pdf' = AddImage(withHeader,
                            Image(Zero, canvas.height, marginX, yStart,
                                  contentWidth, scaledImgHeight))
              /\ pc' = "singleFooter"
              /\ error' = error
           \/ /\ pdf' = withHeader
              /\ Raise(ImageError)
    /\ UNCHANGED <<requestVars, pairVars, pageVars, inputs, geoVars, canvas, captureCalls, loopVars, footerVars,
                   slices, outVars>>

E_SingleFooter ==
    /\ fn = "exportToPdf" /\ pc = "singleFooter"
    /\ \/ /\ pdf' = AddFooter(pdf, 1, 1)
          /\ pc' = "save"
          /\ error' = error
       \/ /\ pdf' = SetPage(pdf, 1)
          /\ Raise(TextError)
    /\ UNCHANGED <<requestVars, pairVars, pageVars, inputs, geoVars, canvas, captureCalls, loopVars, footerVars,
                   slices, outVars>>

E_FirstPage ==
    /\ fn = "exportToPdf" /\ pc = "first"
    /\ \E withHeader \in {AddHeaderTexts(pdf, 1, options)},
          firstPageYStart \in {AddHeaderY(1, options)},
          ppm \in {PixelsPerMm(canvas)} :
       \E firstPagePixelHeight \in {FirstPagePixelHeight(ppm, options)} :
       \E firstPageCanvasHeight \in
              {CanvasDim(MathMin(firstPagePixelHeight, Num(canvas.height)))} :
       \E firstPageScaledHeight \in {NumMul(Num(firstPageCanvasHeight), scale)} :
           \E outcome \in SliceOutcomes :
             /\ pixelsPerMm' = ppm
             /\ slices' = Append(slices, Slice(1, Zero, firstPageCanvasHeight,
                                               outcome = "placed"))
             /\ IF outcome = "throws"
                THEN /\ pdf' = withHeader
                     /\ Raise(ImageError)
                     /\ UNCHANGED loopVars
                ELSE /\ pdf' = IF outcome = "placed"
                               THEN AddImage(withHeader,
                                        Image(Zero, firstPageCanvasHeight, marginX,
                                              firstPageYStart, contentWidth,
                                              firstPageScaledHeight))
                               ELSE withHeader
                     /\ remainingPixelHeight' =
                            NumSub(Num(canvas.height), firstPagePixelHeight)
                     /\ currentPixelY' = firstPagePixelHeight
                     /\ pageNum' = 2
                     /\ isFirstPage' = isFirstPage
                     /\ pc' = "loop"
                     /\ error' = error
    /\ UNCHANGED <<requestVars, pairVars, pageVars, inputs, scale, scaledImgHeight, canvas, captureCalls,
                   footerVars, outVars>>

E_LoopIter ==
    /\ fn = "exportToPdf" /\ pc = "loop"
    /\ NumGt(remainingPixelHeight, Zero)
    /\ Len(pdf.pages) < MaxPages
    /\ \E added \in {AddPage(pdf)},
          pagePixelHeight \in {PagePixelHeight(pixelsPerMm, remainingPixelHeight)} :
       \E pageCanvasHeight \in {CanvasDim(pagePixelHeight)},
          pageScaledHeight \in {NumMul(pagePixelHeight, scale)} :
           \E outcome \in SliceOutcomes :
             /\ slices' = Append(slices, Slice(pageNum, currentPixelY,
                                               pageCanvasHeight, outcome = "placed"))
             /\ IF outcome = "throws"
                THEN /\ pdf' = added
                     /\ Raise(ImageError)
                     /\ UNCHANGED loopVars
                ELSE /\ pdf' = IF outcome = "placed"
                               THEN AddImage(added,
                                        Image(currentPixelY, pageCanvasHeight, marginX,
                                              marginTop, contentWidth, pageScaledHeight))
                               ELSE added
                     /\ currentPixelY' = NumAdd(currentPixelY, pagePixelHeight)
                     /\ remainingPixelHeight' =
                            NumSub(remainingPixelHeight, pagePixelHeight)
                     /\ pageNum' = pageNum + 1
                     /\ isFirstPage' = isFirstPage
                     /\ pc' = "loop"
                     /\ error' = error
    /\ UNCHANGED <<requestVars, pairVars, pageVars, inputs, geoVars, canvas, captureCalls, footerVars, outVars>>

E_LoopExit_never ==
    /\ fn = "exportToPdf" /\ pc = "loop"
    /\ NumLt(remainingPixelHeight, Zero)
    /\ totalPages' = GetNumberOfPages(pdf)
    /\ i' = 1
    /\ pc' = "footers"
    /\ UNCHANGED <<requestVars, pairVars, pageVars, inputs, geoVars, canvas, captureCalls, pdf, loopVars, slices,
                   outVars, error>>

E_LoopExit ==
    /\ fn = "exportToPdf" /\ pc = "loop"
    /\ ~NumGt(remainingPixelHeight, Zero)
    /\ totalPages' = GetNumberOfPages(pdf)
    /\ i' = 1
    /\ pc' = "footers"
    /\ UNCHANGED <<requestVars, pairVars, pageVars, inputs, geoVars, canvas, captureCalls, pdf, loopVars, slices,
                   outVars, error>>

E_Footer_early ==
    /\ fn = "exportToPdf" /\ pc = "footers"
    /\ i <= totalPages
    /\ \/ /\ pdf' = AddFooter(pdf, i, totalPages)
          /\ i' = i + 1
          /\ pc' = "save"
          /\ error' = error
       \/ /\ pdf' = SetPage(pdf, i)
          /\ i' = i
          /\ Raise(TextError)
    /\ UNCHANGED <<requestVars, pairVars, pageVars, inputs, geoVars, canvas, captureCalls, loopVars, totalPages,
                   slices, outVars>>

E_Footer ==
    /\ fn = "exportToPdf" /\ pc = "footers"
    /\ i <= totalPages
    /\ \/ /\ pdf' = AddFooter(pdf, i, totalPages)
          /\ i' = i + 1
          /\ pc' = IF i + 1 <= totalPages THEN "footers" ELSE "save"
          /\ error' = error
       \/ /\ pdf' = SetPage(pdf, i)
          /\ i' = i
          /\ Raise(TextError)
    /\ UNCHANGED <<requestVars, pairVars, pageVars, inputs, geoVars, canvas, captureCalls, loopVars, totalPages,
                   slices, outVars>>

E_Save ==
    /\ fn = "exportToPdf" /\ pc = "save"
    /\ saveCalls' = saveCalls + 1
    /\ \/ /\ saved' = Append(saved, SaveName(options.filename))
          /\ pc' = "done"
          /\ error' = error
       \/ /\ saved' = saved
          /\ Raise(SaveError)
    /\ UNCHANGED <<requestVars, pairVars, pageVars, inputs, geoVars, canvas, captureCalls, pdf, loopVars, footerVars,
                   slices>>

\* ---------------------------------------------------------------------
\* exportViewToPdf
\* ---------------------------------------------------------------------
V_Lookup ==
    /\ fn = "exportViewToPdf" /\ pc = "start"
    /\ IF present
       THEN pc' = "capture" /\ error' = error
       ELSE Raise(ElementNotFoundBySelector(elementId))
    /\ UNCHANGED <<requestVars, pairVars, pageVars, inputs, geoVars, canvas, captureCalls, pdf, loopVars, footerVars,
                   slices, outVars>>

V_Capture ==
    /\ fn = "exportViewToPdf" /\ pc = "capture"
    /\ captureCalls' = captureCalls + 1
    /\ \/ \E bm \in Bitmaps :
            /\ canvas' = [width |-> bm[1], height |-> bm[2]]
            /\ pc' = "geometry"
            /\ error' = error
       \/ /\ Raise(CaptureError)
          /\ canvas' = canvas
    /\ UNCHANGED <<requestVars, pairVars, pageVars, inputs, geoVars, pdf, loopVars, footerVars, slices, outVars>>

V_Geometry ==
    /\ fn = "exportViewToPdf" /\ pc = "geometry"
    /\ pdf' = NewPdf(IF IsLandscape(canvas) THEN "landscape" ELSE "portrait")
    /\ scale' = ViewScale(canvas)
    /\ scaledImgHeight' = ViewScaledHeight(canvas, scale')
    /\ IF ViewFitsOnePage(canvas, scaledImgHeight')
       THEN /\ pc' = "single"
            /\ UNCHANGED <<pixelsPerMm, loopVars>>
       ELSE /\ pc' = "loop"
            /\ pixelsPerMm' = ViewPixelsPerMm(canvas)
            /\ remainingPixelHeight' = Num(canvas.height)
            /\ currentPixelY' = Zero
            /\ isFirstPage' = TRUE
            /\ pageNum' = pageNum
    /\ UNCHANGED <<requestVars, pairVars, pageVars, inputs, canvas, captureCalls, footerVars, slices, outVars,
                   error>>

V_SinglePage ==
    /\ fn = "exportViewToPdf" /\ pc = "single"
    /\ \/ /\ pdf' = AddImage(pdf, Image(Zero, canvas.height, margin, margin,
                                        EffectiveContentWidth(canvas),
                                        scaledImgHeight))
          /\ pc' = "save"
          /\ error' = error
       \/ /\ pdf' = pdf
          /\ Raise(ImageError)
    /\ UNCHANGED <<requestVars, pairVars, pageVars, inputs, geoVars, canvas, captureCalls, loopVars, footerVars,
                   slices, outVars>>

V_LoopIter ==
    /\ fn = "exportViewToPdf" /\ pc = "loop"
    /\ NumGt(remainingPixelHeight, Zero)
    /\ Len(pdf.pages) < MaxPages
    /\ \E added \in {IF isFirstPage THEN pdf ELSE AddPage(pdf)},
          pagePixelHeight \in
              {ViewPagePixelHeight(canvas, pixelsPerMm, remainingPixelHeight)} :
       \E pageCanvasHeight \in {CanvasDim(pagePixelHeight)},
          pageScaledHeight \in {NumMul(pagePixelHeight, scale)} :
           \E outcome \in SliceOutcomes :
             /\ slices' = Append(slices, Slice(Len(added.pages), currentPixelY,
                                               pageCanvasHeight, outcome = "placed"))
             /\ IF outcome = "throws"
                THEN /\ pdf' = added
                     /\ Raise(ImageError)
                     /\ UNCHANGED loopVars
                ELSE /\ pdf' = IF outcome = "placed"
                               THEN AddImage(added,
                                        Image(currentPixelY, pageCanvasHeight, margin,
                                              margin, EffectiveContentWidth(canvas),
                                              pageScaledHeight))
                               ELSE added
                     /\ currentPixelY' = NumAdd(currentPixelY, pagePixelHeight)
                     /\ remainingPixelHeight' =
                            NumSub(remainingPixelHeight, pagePixelHeight)
                     /\ isFirstPage' = FALSE
                     /\ pageNum' = pageNum
                     /\ pc' = "loop"
                     /\ error' = error
    /\ UNCHANGED <<requestVars, pairVars, pageVars, inputs, geoVars, canvas, captureCalls, footerVars, outVars>>

V_Save ==
    /\ fn = "exportViewToPdf"
    /\ \/ pc = "save"
       \/ pc = "loop" /\ ~NumGt(remainingPixelHeight, Zero)
    /\ saveCalls' = saveCalls + 1
    /\ \/ /\ saved' = Append(saved, SaveName(options.filename))
          /\ pc' = "done"
          /\ error' = error
       \/ /\ saved' = saved
          /\ Raise(SaveError)
    /\ UNCHANGED <<requestVars, pairVars, pageVars, inputs, geoVars, canvas, captureCalls, pdf, loopVars, footerVars,
                   slices>>

Next ==
    \/ E_Lookup
    \/ E_Capture
    \/ E_Geometry
    \/ E_SinglePage
    \/ E_SingleFooter
    \/ E_FirstPage
    \/ E_LoopIter
    \/ E_LoopExit
    \/ E_Footer
    \/ E_Save
    \/ V_Lookup
    \/ V_Capture
    \/ V_Geometry
    \/ V_SinglePage
    \/ V_LoopIter
    \/ V_Save

Spec == Init /\ [][Next]_vars

\* Once the lookup has run, the rest of an invocation is driven by the
\* settling of the html2canvas promise and by synchronous code, which the
\* event loop runs to completion.
LiveSpec == Spec /\ WF_vars(Next)

\* The same invocations, those on a collapsed element included.
DegenerateInit == InvocationInit(ElementIds \cup CollapsedElementIds)
DegenerateSpec == DegenerateInit /\ [][Next]_vars /\ WF_vars(Next)

\* ---------------------------------------------------------------------
\* Report pages: BalanceSheet, CashFlow, CooperativeFees, MembershipFees
\* (admin view) and FinancialRatios.  A page calls exportToPdf from
\* handleExportPdf; the header's selectors, the page's own controls, the
\* answers of the API and the Excel export are tasks of the event loop and
\* run only while no JavaScript is running, that is before a run of
\* handleExportPdf, after it, or while exportToPdf awaits html2canvas.
\* ---------------------------------------------------------------------
TaskCanRun == mounted # "none" /\ (hpc # "awaiting" \/ pc = "capture")

\* FinancialRatios renders only a spinner while loading; the other pages
\* always render the region with its buttons.
RegionRendered == mounted # "FinancialRatios" \/ ~isLoading

PdfButtonDisabled_loadingOnly ==
    IF mounted = "FinancialRatios" THEN data = "empty" ELSE isLoading

\* disabled={isExportingPdf || isLoading}; FinancialRatios:
\* disabled={isExportingPdf || ratios.length === 0}
PdfButtonDisabled ==
    IF mounted = "FinancialRatios"
    THEN isExportingPdf \/ data = "empty"
    ELSE isExportingPdf \/ isLoading

\* disabled={isExporting || isLoading}; FinancialRatios:
\* disabled={isExporting || ratios.length === 0}
ExcelButtonDisabled ==
    IF mounted = "FinancialRatios"
    THEN isExporting \/ data = "empty"
    ELSE isExporting \/ isLoading

\* AppHeader reads selectedPeriod.year to render its selectors.
HeaderRendered == selectedPeriod # NoPeriod

\* What the captured region shows, as far as the page's state decides it:
\* the spinner or the rows, the icons of the two export buttons apart from
\* the PDF button's own, the period label of the balance sheet, the open
\* sections, the search box and the status filter.
RegionContent ==
    [loading |-> isLoading,
     rows |-> data,
     history |-> historyData,
     excelBusy |-> isExporting,
     period |-> IF mounted = "BalanceSheet" THEN selectedPeriod ELSE NoPeriod,
     sections |-> expandedSections,
     search |-> searchTerm,
     status |-> statusFilter]

\* The effect that loads the page's data, run after a render in which one
\* of its dependencies changed.
CanFetch(period) == period = NoPeriod \/ fetches < MaxFetches
DataEffect(period) ==
    IF period = NoPeriod
    THEN UNCHANGED <<isLoading, fetches>>
    ELSE /\ isLoading' = TRUE
         /\ fetches' = fetches + 1

\* CashFlow's second effect: it reloads the history when the cooperative
\* changes.
CanFetchHistory == mounted # "CashFlow" \/ historyFetches < MaxFetches
HistoryEffect ==
    historyFetches' = IF mounted = "CashFlow" THEN historyFetches + 1 ELSE historyFetches

SetSelectedPeriod(p) ==
    /\ CanFetch(p)
    /\ selectedPeriod' = p
    /\ DataEffect(p)
    /\ UNCHANGED <<requestVars, pairVars, engineVars, mounted, hpc, selectedCooperative, data, historyFetches,
                   historyData, isExporting, isExportingPdf, inFlight, toasts,
                   expandedSections, searchTerm, statusFilter>>

\* The period selector of AppHeader.
U_SelectPeriod ==
    /\ TaskCanRun /\ HeaderRendered
    /\ \E p \in Periods \ {selectedPeriod} : SetSelectedPeriod(p)

\* The period context itself: the pages guard against a null period, so the
\* provider may hand one out and may replace it by a period later.
P_ProviderPeriod ==
    /\ TaskCanRun
    /\ \E p \in (Periods \cup {NoPeriod}) \ {selectedPeriod} :
          /\ selectedPeriod = NoPeriod \/ p = NoPeriod
          /\ SetSelectedPeriod(p)

\* The cooperative selector of AppHeader.
U_SelectCooperative ==
    /\ TaskCanRun /\ HeaderRendered
    /\ CanFetch(selectedPeriod) /\ CanFetchHistory
    /\ \E c \in Cooperatives \ {selectedCooperative} : selectedCooperative' = c
    /\ DataEffect(selectedPeriod)
    /\ HistoryEffect
    /\ UNCHANGED <<requestVars, pairVars, engineVars, mounted, hpc, selectedPeriod, data, historyData,
                   isExporting, isExportingPdf, inFlight, toasts, expandedSections,
                   searchTerm, statusFilter>>

\* MembershipFees: typing in the search box.
U_Search ==
    /\ TaskCanRun /\ mounted = "MembershipFees"
    /\ CanFetch(selectedPeriod)
    /\ \E t \in SearchTerms \ {searchTerm} : searchTerm' = t
    /\ DataEffect(selectedPeriod)
    /\ UNCHANGED <<requestVars, pairVars, engineVars, mounted, hpc, selectedPeriod, selectedCooperative, data,
                   historyFetches, historyData, isExporting, isExportingPdf, inFlight,
                   toasts, expandedSections, statusFilter>>

\* MembershipFees: the status filter.
U_StatusFilter ==
    /\ TaskCanRun /\ mounted = "MembershipFees"
    /\ CanFetch(selectedPeriod)
    /\ \E s \in StatusFilters \ {statusFilter} : statusFilter' = s
    /\ DataEffect(selectedPeriod)
    /\ UNCHANGED <<requestVars, pairVars, engineVars, mounted, hpc, selectedPeriod, selectedCooperative, data,
                   historyFetches, historyData, isExporting, isExportingPdf, inFlight,
                   toasts, expandedSections, searchTerm>>

\* BalanceSheet: toggleSection; the section headers are drawn once the data
\* is loaded.
U_ToggleSection ==
    /\ TaskCanRun /\ mounted = "BalanceSheet" /\ ~isLoading
    /\ \E s \in Sections :
          expandedSections' = IF s \in expandedSections
                              THEN expandedSections \ {s}
                              ELSE expandedSections \cup {s}
    /\ UNCHANGED <<requestVars, pairVars, engineVars, mounted, hpc, selectedPeriod, selectedCooperative,
                   isLoading, fetches, data, historyFetches, historyData, isExporting,
                   isExportingPdf, inFlight, toasts, searchTerm, statusFilter>>

\* A request of the data effect settles: with rows, with none, or with an
\* error or an empty answer that leaves the rows as they are.
F_Settle ==
    /\ TaskCanRun /\ fetches > 0
    /\ fetches' = fetches - 1
    /\ isLoading' = FALSE
    /\ \E d \in Responses \cup {data} : data' = d
    /\ UNCHANGED <<requestVars, pairVars, engineVars, mounted, hpc, selectedPeriod, selectedCooperative,
                   historyFetches, historyData, isExporting, isExportingPdf, inFlight,
                   toasts, expandedSections, searchTerm, statusFilter>>

\* CashFlow: a history request settles.
F_SettleHistory ==
    /\ TaskCanRun /\ historyFetches > 0
    /\ historyFetches' = historyFetches - 1
    /\ \E d \in Responses \cup {historyData} : historyData' = d
    /\ UNCHANGED <<requestVars, pairVars, engineVars, mounted, hpc, selectedPeriod, selectedCooperative,
                   isLoading, fetches, data, isExporting, isExportingPdf, inFlight,
                   toasts, expandedSections, searchTerm, statusFilter>>

\* handleExport (Excel) up to its await; with no period it returns at once
\* and changes nothing.
X_Click ==
    /\ TaskCanRun /\ RegionRendered /\ ~ExcelButtonDisabled
    /\ selectedPeriod # NoPeriod
    /\ isExporting' = TRUE
    /\ UNCHANGED <<requestVars, pairVars, engineVars, mounted, hpc, selectedPeriod, selectedCooperative,
                   isLoading, fetches, data, historyFetches, historyData,
                   isExportingPdf, inFlight, toasts, expandedSections, searchTerm,
                   statusFilter>>

\* handleExport after its await: a toast either way, then the finally block.
X_Settle ==
    /\ TaskCanRun /\ isExporting
    /\ isExporting' = FALSE
    /\ UNCHANGED <<requestVars, pairVars, engineVars, mounted, hpc, selectedPeriod, selectedCooperative,
                   isLoading, fetches, data, historyFetches, historyData,
                   isExportingPdf, inFlight, toasts, expandedSections, searchTerm,
                   statusFilter>>

\* handleExportPdf from the click up to the call of exportToPdf, which
\* starts a fresh invocation.
H_Click ==
    /\ TaskCanRun /\ RegionRendered /\ ~PdfButtonDisabled
    /\ inFlight < MaxInFlight
    /\ IF selectedPeriod = NoPeriod
       THEN /\ hpc' = IF hpc = "awaiting" THEN hpc ELSE "returned"
            /\ UNCHANGED <<engineVars, isExportingPdf, inFlight, toasts>>
       ELSE /\ hpc' = "awaiting"
            /\ isExportingPdf' = TRUE
            /\ inFlight' = inFlight + 1
            /\ toasts' = <<>>
            /\ fn' = "exportToPdf"
            /\ elementId' = ElementIdOf(mounted)
            /\ present' = RegionRendered
            /\ options' = ExportOptions(mounted, selectedPeriod, selectedCooperative)
            /\ pc' = "start"
            /\ canvas' = [width |-> 0, height |-> 0]
            /\ captureCalls' = 0
            /\ scale' = Zero
            /\ scaledImgHeight' = Zero
            /\ pixelsPerMm' = Zero
            /\ pdf' = NoPdf
            /\ remainingPixelHeight' = Zero
            /\ currentPixelY' = Zero
            /\ pageNum' = 0
            /\ isFirstPage' = TRUE
            /\ totalPages' = 0
            /\ i' = 0
            /\ slices' = <<>>
            /\ saveCalls' = 0
            /\ saved' = <<>>
            /\ error' = NoError
    /\ UNCHANGED <<requestVars, pairVars, mounted, selectedPeriod, selectedCooperative, isLoading, fetches,
                   data, historyFetches, historyData, isExporting, expandedSections,
                   searchTerm, statusFilter>>

\* exportToPdf has settled: its arguments and locals are gone, its outcome
\* stays.
DropLocals ==
    /\ canvas' = [width |-> 0, height |-> 0]
    /\ scale' = Zero
    /\ scaledImgHeight' = Zero
    /\ pixelsPerMm' = Zero
    /\ pdf' = NoPdf
    /\ remainingPixelHeight' = Zero
    /\ currentPixelY' = Zero
    /\ pageNum' = 0
    /\ isFirstPage' = TRUE
    /\ totalPages' = 0
    /\ i' = 0
    /\ slices' = <<>>
    /\ present' = FALSE
    /\ options' = [filename |-> "", title |-> "", subtitle |-> ""]
    /\ UNCHANGED <<fn, elementId, pc, captureCalls, outVars, error>>

H_Settle_successInFinally ==
    /\ mounted # "none" /\ hpc = "awaiting" /\ pc \in {"done", "raised"}
    /\ toasts' = IF pc = "done"
                 THEN <<"success", "success">>
                 ELSE <<"error", "success">>
    /\ isExportingPdf' = FALSE
    /\ inFlight' = inFlight - 1
    /\ hpc' = "finished"
    /\ DropLocals
    /\ UNCHANGED <<requestVars, pairVars, mounted, selectedPeriod, selectedCooperative, isLoading,
                   fetches, data, historyFetches, historyData, isExporting,
                   expandedSections, searchTerm, statusFilter>>

H_Settle_flagInTry ==
    /\ mounted # "none" /\ hpc = "awaiting" /\ pc \in {"done", "raised"}
    /\ toasts' = Append(toasts, IF pc = "done" THEN "success" ELSE "error")
    /\ isExportingPdf' = (pc # "done")
    /\ inFlight' = inFlight - 1
    /\ hpc' = "finished"
    /\ DropLocals
    /\ UNCHANGED <<requestVars, pairVars, mounted, selectedPeriod, selectedCooperative, isLoading,
                   fetches, data, historyFetches, historyData, isExporting,
                   expandedSections, searchTerm, statusFilter>>

\* handleExportPdf after the await: toast.success when exportToPdf resolved,
\* toast.error in the catch block, then the finally block.
H_Settle ==
    /\ mounted # "none" /\ hpc = "awaiting" /\ pc \in {"done", "raised"}
    /\ toasts' = Append(toasts, IF pc = "done" THEN "success" ELSE "error")
    /\ isExportingPdf' = FALSE
    /\ inFlight' = inFlight - 1
    /\ hpc' = "finished"
    /\ DropLocals
    /\ UNCHANGED <<requestVars, pairVars, mounted, selectedPeriod, selectedCooperative, isLoading,
                   fetches, data, historyFetches, historyData, isExporting,
                   expandedSections, searchTerm, statusFilter>>

\* A report page after its first render: the data effect has run.
PageMounted ==
    /\ mounted \in PageNames
    /\ hpc = "idle"
    /\ selectedPeriod \in Periods \cup {NoPeriod}
    /\ selectedCooperative = "Cooperativa X"
    /\ isLoading = TRUE
    /\ fetches = IF selectedPeriod = NoPeriod THEN 0 ELSE 1
    /\ data = "empty"
    /\ historyFetches = IF mounted = "CashFlow" THEN 1 ELSE 0
    /\ historyData = "empty"
    /\ isExporting = FALSE
    /\ isExportingPdf = FALSE
    /\ inFlight = 0
    /\ toasts = <<>>
    /\ expandedSections = Sections
    /\ searchTerm = ""
    /\ statusFilter = "all"
    /\ fn = "exportToPdf"
    /\ elementId = ElementIdOf(mounted)
    /\ present = FALSE
    /\ options = [filename |-> "", title |-> "", subtitle |-> ""]
    /\ pc = "idle"
    /\ canvas = [width |-> 0, height |-> 0]
    /\ captureCalls = 0
    /\ scale = Zero
    /\ scaledImgHeight = Zero
    /\ pixelsPerMm = Zero
    /\ pdf = NoPdf
    /\ remainingPixelHeight = Zero
    /\ currentPixelY = Zero
    /\ pageNum = 0
    /\ isFirstPage = TRUE
    /\ totalPages = 0
    /\ i = 0
    /\ slices = <<>>
    /\ saveCalls = 0
    /\ saved = <<>>
    /\ error = NoError
    /\ NoPair

PageInit == PageMounted /\ NoRequests

PageNext ==
    \/ U_SelectPeriod
    \/ P_ProviderPeriod
    \/ U_SelectCooperative
    \/ U_Search
    \/ U_StatusFilter
    \/ U_ToggleSection
    \/ F_Settle
    \/ F_SettleHistory
    \/ X_Click
    \/ X_Settle
    \/ H_Click
    \/ H_Settle
    \/ E_Lookup
    \/ E_Capture
    \/ E_Geometry
    \/ E_SinglePage
    \/ E_SingleFooter
    \/ E_FirstPage
    \/ E_LoopIter
    \/ E_LoopExit
    \/ E_Footer
    \/ E_Save

PageSpec == PageInit /\ [][PageNext]_vars

\* The steps of an export once it is started: exportToPdf's own, where the
\* html2canvas promise settles, and the continuation of handleExportPdf.
\* The user's actions and the API's answers may or may not happen.
ExportStep ==
    \/ E_Lookup
    \/ E_Capture
    \/ E_Geometry
    \/ E_SinglePage
    \/ E_SingleFooter
    \/ E_FirstPage
    \/ E_LoopIter
    \/ E_LoopExit
    \/ E_Footer
    \/ E_Save
    \/ H_Settle

\* The page as far as starting and ending an export goes: the selectors of
\* the header, the filters, the section toggles and the Excel export change
\* neither isExportingPdf nor anything exportToPdf reads once it is called,
\* and are left out here.
HandlerNext ==
    \/ P_ProviderPeriod
    \/ F_Settle
    \/ H_Click
    \/ H_Settle
    \/ E_Lookup
    \/ E_Capture
    \/ E_Geometry
    \/ E_SinglePage
    \/ E_SingleFooter
    \/ E_FirstPage
    \/ E_LoopIter
    \/ E_LoopExit
    \/ E_Footer
    \/ E_Save

PageLiveSpec == PageInit /\ [][HandlerNext]_vars /\ WF_vars(ExportStep)

\* ---------------------------------------------------------------------
\* Report pages: the requests of the data effect, one by one.  Each run of
\* the effect closes over the period and the cooperative of its render; the
\* requests settle in any order, and every one of them runs its setters and
\* its finally block.
\* ---------------------------------------------------------------------

\* The period selector of AppHeader, followed by the data effect.
R_SelectPeriod ==
    /\ TaskCanRun /\ HeaderRendered
    /\ Len(requests) < MaxOverlap
    /\ \E p \in Periods \ {selectedPeriod} :
          /\ selectedPeriod' = p
          /\ requests' = Append(requests, [period |-> p,
                                           cooperative |-> selectedCooperative])
    /\ isLoading' = TRUE
    /\ fetches' = fetches + 1
    /\ UNCHANGED <<dataOf, pairVars, engineVars, mounted, hpc, selectedCooperative, data,
                   historyFetches, historyData, isExporting, isExportingPdf, inFlight,
                   toasts, expandedSections, searchTerm, statusFilter>>

\* The cooperative selector of AppHeader, followed by the data effect and,
\* on CashFlow, by the history effect.
R_SelectCooperative ==
    /\ TaskCanRun /\ HeaderRendered
    /\ Len(requests) < MaxOverlap /\ CanFetchHistory
    /\ \E c \in Cooperatives \ {selectedCooperative} :
          /\ selectedCooperative' = c
          /\ requests' = Append(requests, [period |-> selectedPeriod,
                                           cooperative |-> c])
    /\ isLoading' = TRUE
    /\ fetches' = fetches + 1
    /\ HistoryEffect
    /\ UNCHANGED <<dataOf, pairVars, engineVars, mounted, hpc, selectedPeriod, data,
                   historyData, isExporting, isExportingPdf, inFlight, toasts,
                   expandedSections, searchTerm, statusFilter>>

\* One of the pending requests settles: its rows are stored, or the answer
\* is missing or an error and the rows stay; then setIsLoading(false).
R_Settle ==
    /\ TaskCanRun
    /\ \E k \in 1..Len(requests) :
          /\ requests' = SubSeq(requests, 1, k - 1)
                             \o SubSeq(requests, k + 1, Len(requests))
          /\ \/ \E d \in Responses : data' = d /\ dataOf' = requests[k]
             \/ data' = data /\ dataOf' = dataOf
    /\ fetches' = fetches - 1
    /\ isLoading' = FALSE
    /\ UNCHANGED <<pairVars, engineVars, mounted, hpc, selectedPeriod, selectedCooperative,
                   historyFetches, historyData, isExporting, isExportingPdf, inFlight,
                   toasts, expandedSections, searchTerm, statusFilter>>

FetchInit ==
    /\ PageMounted
    /\ selectedPeriod # NoPeriod
    /\ requests = <<[period |-> selectedPeriod, cooperative |-> selectedCooperative]>>
    /\ dataOf = NoRequest

FetchNext ==
    \/ R_SelectPeriod
    \/ R_SelectCooperative
    \/ R_Settle
    \/ F_SettleHistory

FetchSpec == FetchInit /\ [][FetchNext]_vars

\* ---------------------------------------------------------------------
\* Two exportToPdf invocations in flight: the caller calls the second one
\* while the first awaits html2canvas, and the event loop resumes whichever
\* capture settles first.
\* ---------------------------------------------------------------------
PairArgs ==
    <<[elementId |-> "balance-sheet-content",
       options |-> [filename |-> "balance-general-2024-3",
                    title |-> "Balance General",
                    subtitle |-> "Cooperativa X"]],
      [elementId |-> "cash-flow-content",
       options |-> [filename |-> "flujo-caja-2024-3", title |-> "", subtitle |-> ""]]>>

Switch_sharedOptions ==
    /\ turn # 0
    /\ pc \in {"capture", "done", "raised"}
    /\ parked.pc \notin {"done", "raised"}
    /\ parked' = Locals
    /\ turn' = 3 - turn
    /\ elementId' = parked.elementId
    /\ present' = parked.present
    /\ options' = options
    /\ pc' = parked.pc
    /\ canvas' = parked.canvas
    /\ captureCalls' = parked.captureCalls
    /\ scale' = parked.scale
    /\ scaledImgHeight' = parked.scaledImgHeight
    /\ pixelsPerMm' = parked.pixelsPerMm
    /\ pdf' = parked.pdf
    /\ remainingPixelHeight' = parked.remainingPixelHeight
    /\ currentPixelY' = parked.currentPixelY
    /\ pageNum' = parked.pageNum
    /\ isFirstPage' = parked.isFirstPage
    /\ totalPages' = parked.totalPages
    /\ i' = parked.i
    /\ slices' = parked.slices
    /\ saveCalls' = parked.saveCalls
    /\ error' = parked.error
    /\ UNCHANGED <<requestVars, pageVars, fn, saved>>

\* The running invocation awaits its capture or has settled, and the other
\* one, which has steps left, runs next.  Parameters and locals belong to
\* the invocation; the files saved are the browser's.
Switch ==
    /\ turn # 0
    /\ pc \in {"capture", "done", "raised"}
    /\ parked.pc \notin {"done", "raised"}
    /\ parked' = Locals
    /\ turn' = 3 - turn
    /\ elementId' = parked.elementId
    /\ present' = parked.present
    /\ options' = parked.options
    /\ pc' = parked.pc
    /\ canvas' = parked.canvas
    /\ captureCalls' = parked.captureCalls
    /\ scale' = parked.scale
    /\ scaledImgHeight' = parked.scaledImgHeight
    /\ pixelsPerMm' = parked.pixelsPerMm
    /\ pdf' = parked.pdf
    /\ remainingPixelHeight' = parked.remainingPixelHeight
    /\ currentPixelY' = parked.currentPixelY
    /\ pageNum' = parked.pageNum
    /\ isFirstPage' = parked.isFirstPage
    /\ totalPages' = parked.totalPages
    /\ i' = parked.i
    /\ slices' = parked.slices
    /\ saveCalls' = parked.saveCalls
    /\ error' = parked.error
    /\ UNCHANGED <<requestVars, pageVars, fn, saved>>

PairInit ==
    /\ fn = "exportToPdf"
    /\ turn = 1
    /\ elementId = PairArgs[1].elementId
    /\ present \in BOOLEAN
    /\ options = PairArgs[1].options
    /\ parked \in {NewLocals(PairArgs[2].elementId, found, PairArgs[2].options) :
                      found \in BOOLEAN}
    /\ pc = "start"
    /\ canvas = [width |-> 0, height |-> 0]
    /\ captureCalls = 0
    /\ scale = Zero
    /\ scaledImgHeight = Zero
    /\ pixelsPerMm = Zero
    /\ pdf = NoPdf
    /\ remainingPixelHeight = Zero
    /\ currentPixelY = Zero
    /\ pageNum = 0
    /\ isFirstPage = TRUE
    /\ totalPages = 0
    /\ i = 0
    /\ slices = <<>>
    /\ saveCalls = 0
    /\ saved = <<>>
    /\ error = NoError
    /\ NoPage
    /\ NoRequests

PairNext ==
    \/ Switch
    \/ E_Lookup
    \/ E_Capture
    \/ E_Geometry
    \/ E_SinglePage
    \/ E_SingleFooter
    \/ E_FirstPage
    \/ E_LoopIter
    \/ E_LoopExit
    \/ E_Footer
    \/ E_Save

PairSpec == PairInit /\ [][PairNext]_vars

TypeOK == pc \in {"idle", "start", "capture", "geometry", "single", "singleFooter", "first", "loop",
                  "footers", "save", "done", "raised"}
\* ---------------------------------------------------------------------
\* Properties
\* ---------------------------------------------------------------------
FooterIdx(page) == {k \in 1..Len(page.texts) : page.texts[k].kind = "footer"}
Footers(page) == {page.texts[k] : k \in FooterIdx(page)}
HasFooter(doc) == \E p \in 1..Len(doc.pages) : FooterIdx(doc.pages[p]) # {}
HasTitle == options.title # ""
HasSubtitle == options.subtitle # ""
CeilDiv(a, b) == IF a <= 0 THEN 0 ELSE (a + b - 1) \div b
SinglePath == pc \in {"single", "singleFooter"} \/ (pc \in {"save", "done"} /\ slices = <<>>)
MultiPath == pc \in {"first", "loop", "footers"} \/ (pc \in {"save", "done"} /\ slices # <<>>)

\* C1: in exportToPdf the source rows assigned to the pages are contiguous
\* bands in page order: the first starts at row 0, each later band starts
\* where the previous one ends, and the last one ends at row H.
C1_BandsContiguous ==
    (fn = "exportToPdf" /\ pc \in {"footers", "save", "done"} /\ slices # <<>>) =>
        /\ slices[1].sy = Zero
        /\ \A k \in 1..(Len(slices) - 1) :
              slices[k + 1].sy = NumAdd(slices[k].sy, Num(slices[k].rows))
        /\ NumAdd(slices[Len(slices)].sy, Num(slices[Len(slices)].rows))
              = Num(canvas.height)

\* C2: pdf.save is called at most once and only as the last step; when the
\* lookup, the capture, a slice placement or a footer stamp raises, save is
\* never called, nothing is saved and the error reaches the caller.
C2_SaveLast ==
    /\ saveCalls <= 1
    /\ Len(saved) <= saveCalls
    /\ saveCalls = 1 => pc \in {"done", "raised"}
    /\ (error # NoError) <=> (pc = "raised")
    /\ (pc = "raised" /\ error # SaveError) => (saveCalls = 0 /\ saved = <<>>)

C2_Witness ==
    /\ pc = "raised" /\ error = ImageError
    /\ Len(pdf.pages) >= 2
    /\ saveCalls = 0

\* C3: when the requested id or selector resolves to no element, the
\* invocation fails with an error naming that identifier, html2canvas is
\* never called, no document is created and no file is saved.
C3_ElementNotFound ==
    (~present /\ pc # "start") =>
        /\ pc = "raised"
        /\ error.kind = "Error"
        /\ \E k \in 1..Len(error.message) : error.message[k] = elementId
        /\ captureCalls = 0
        /\ pdf = NoPdf
        /\ saveCalls = 0 /\ saved = <<>>

C3_Witness ==
    /\ ~present /\ pc = "raised"
    /\ fn = "exportToPdf" /\ elementId = "cash-flow-content"

\* C4: every page i of a document saved by exportToPdf with N pages carries
\* exactly one footer, "ContaCoop - Pagina i de N" (the model writes the
\* label as its template and its two numbers).
C4_FooterOnEveryPage ==
    (fn = "exportToPdf" /\ saved # <<>>) =>
        \A p \in 1..Len(pdf.pages) :
            /\ Cardinality(FooterIdx(pdf.pages[p])) = 1
            /\ \A f \in Footers(pdf.pages[p]) :
                  /\ f.s = "ContaCoop - Pagina {a} de {b}"
                  /\ f.a = p
                  /\ f.b = Len(pdf.pages)

C4_Witness ==
    /\ fn = "exportToPdf" /\ saved # <<>>
    /\ Len(pdf.pages) = 3

\* C5: in exportToPdf pages are appended one at a time and an image is only
\* ever placed on the page appended last; no page is appended once a footer
\* exists, each footer states the final page count, and save is called only
\* when every page has its footer.
C5_Ordering ==
    [][fn = "exportToPdf" =>
         /\ Len(pdf'.pages) # Len(pdf.pages) =>
               /\ Len(pdf'.pages) = Len(pdf.pages) + 1
               /\ ~HasFooter(pdf')
         /\ \A p \in 1..Len(pdf.pages) :
               pdf'.pages[p].images # pdf.pages[p].images =>
                   (p = Len(pdf'.pages) /\ ~HasFooter(pdf'))
         /\ HasFooter(pdf) => Len(pdf'.pages) = Len(pdf.pages)
         /\ \A p \in 1..Len(pdf'.pages) :
               \A f \in Footers(pdf'.pages[p]) : f.b = Len(pdf'.pages)
         /\ saveCalls' # saveCalls =>
               \A p \in 1..Len(pdf.pages) : FooterIdx(pdf.pages[p]) # {}
      ]_vars

C5_Witness ==
    /\ fn = "exportToPdf" /\ pc = "footers"
    /\ Len(pdf.pages) = 3 /\ i = 2
    /\ FooterIdx(pdf.pages[1]) # {} /\ FooterIdx(pdf.pages[3]) = {}

\* C6: the single-page path is taken exactly when the scaled height is at
\* most the first-page content height (exportToPdf) or the effective content
\* height (exportViewToPdf), equality included; the single page holds the
\* whole bitmap as one image.
C6_StrictTrigger ==
    /\ (fn = "exportToPdf" /\ (SinglePath \/ MultiPath)) =>
          /\ SinglePath <=>
                NumLe(scaledImgHeight, Num(FirstPageContentHeight(options)))
          /\ MultiPath <=>
                NumGt(scaledImgHeight, Num(FirstPageContentHeight(options)))
    /\ (fn = "exportViewToPdf" /\ pc \in {"single", "loop"}) =>
          /\ pc = "single" <=>
                NumLe(scaledImgHeight, Num(EffectiveContentHeight(canvas)))
          /\ pc = "loop" <=>
                NumGt(scaledImgHeight, Num(EffectiveContentHeight(canvas)))
    /\ (SinglePath /\ pc \in {"save", "done"}) =>
          /\ Len(pdf.pages) = 1
          /\ Len(pdf.pages[1].images) = 1
          /\ pdf.pages[1].images[1].sy = Zero
          /\ pdf.pages[1].images[1].rows = canvas.height

C6_Witness ==
    /\ fn = "exportToPdf" /\ pc = "done"
    /\ scaledImgHeight = Num(FirstPageContentHeight(options))
    /\ Len(pdf.pages) = 1

\* C7: in the multi-page path of exportToPdf the page count is 1 + ceil(R/B),
\* R = H - firstPageContentHeight * W / contentWidth the rows left after
\* page 1 and B = otherPageContentHeight * W / contentWidth the page budget.
C7_PageCount ==
    (fn = "exportToPdf" /\ pc = "footers") =>
        Len(pdf.pages) =
            1 + CeilDiv(canvas.height * contentWidth
                            - FirstPageContentHeight(options) * canvas.width,
                        otherPageContentHeight * canvas.width)

C9_HeaderHeight ==
    (fn = "exportToPdf" /\ pc \in {"single", "first"}) =>
        /\ HeaderHeight(options) =
              10 + (IF HasTitle THEN 15 ELSE 0) + (IF HasSubtitle THEN 10 ELSE 0)
        /\ (HasTitle /\ HasSubtitle) => HeaderHeight(options) = 35
        /\ (~HasTitle /\ ~HasSubtitle) => HeaderHeight(options) = 10
        /\ FirstPageContentHeight(options) = 297 - HeaderHeight(options) - 15
        /\ FirstPageContentHeight(options) \in {247, 257, 262, 272}
        /\ otherPageContentHeight = 297 - 10 - 15
        /\ FirstPageContentHeight(options) > 0 /\ otherPageContentHeight > 0

C9_Witness ==
    /\ fn = "exportToPdf" /\ pc = "first"
    /\ HasTitle /\ HasSubtitle

\* C10: exportViewToPdf creates a landscape document exactly when the
\* bitmap's width/height ratio exceeds 1.2 (5 * width > 6 * height): 3x2 is
\* landscape, 11x10 and 6x5 are portrait.
C10_Orientation ==
    (fn = "exportViewToPdf" /\ pdf # NoPdf) =>
        /\ pdf.orientation = "landscape" <=> 5 * canvas.width > 6 * canvas.height
        /\ pdf.orientation = "portrait" <=> 5 * canvas.width <= 6 * canvas.height
        /\ canvas = [width |-> 3, height |-> 2] => pdf.orientation = "landscape"
        /\ canvas = [width |-> 11, height |-> 10] => pdf.orientation = "portrait"
        /\ canvas = [width |-> 6, height |-> 5] => pdf.orientation = "portrait"

C10_Witness ==
    /\ fn = "exportViewToPdf" /\ pc = "done"
    /\ canvas = [width |-> 6, height |-> 5]
    /\ pdf.orientation = "portrait"

\* C11: in the slicing loops of both functions every iteration consumes a
\* strictly positive amount of pixel rows (remainingPixelHeight strictly
\* decreases, currentPixelY never moves back), remainingPixelHeight is never
\* negative, the loop is left towards the footers or the save only with
\* remainingPixelHeight equal to 0, and the loop is always left.  The amount
\* is the code's pagePixelHeight, a Number: it can be a fraction of a row
\* (see C7_PageCount for the page such an iteration adds).
C11_LoopProgress ==
    /\ [][ /\ (pc \in {"first", "geometry"} /\ pc' = "loop") =>
                 ~NumLt(remainingPixelHeight', Zero)
           /\ (pc = "loop" /\ pc' = "loop") =>
                 /\ NumGt(remainingPixelHeight, Zero)
                 /\ NumLt(remainingPixelHeight', remainingPixelHeight)
                 /\ ~NumLt(currentPixelY', currentPixelY)
                 /\ ~NumLt(remainingPixelHeight', Zero)
           /\ (pc = "loop" /\ (pc' = "footers" \/ saveCalls' # saveCalls)) =>
                 /\ ~NumLt(remainingPixelHeight, Zero)
                 /\ ~NumGt(remainingPixelHeight, Zero)
         ]_vars
    /\ (pc = "loop") ~> (pc # "loop")

C11_Witness ==
    /\ pc = "loop"
    /\ Len(slices) >= 3
    /\ ~NumGt(remainingPixelHeight, Zero)

\* C12: html2canvas is called at most once per invocation; when it rejects,
\* the invocation rejects with that very error, no document is created and
\* nothing is saved; an error, once raised, is never replaced and no further
\* capture is attempted.
C12_CaptureError ==
    /\ [](/\ captureCalls <= 1
          /\ (captureCalls = 1 /\ canvas.width = 0) =>
                (pc = "raised" /\ error = CaptureError /\ pdf = NoPdf /\ saveCalls = 0)
          /\ error = CaptureError => (captureCalls = 1 /\ canvas.width = 0))
    /\ [][error # NoError => (error' = error /\ captureCalls' = captureCalls)]_vars

C12_Witness ==
    /\ fn = "exportViewToPdf"
    /\ pc = "raised" /\ error = CaptureError
    /\ captureCalls = 1

TextsOfKind(page, kind) == {k \in 1..Len(page.texts) : page.texts[k].kind = kind}

\* C13: once exportToPdf has drawn the header, page 1 carries the title
\* exactly when a title was supplied, the subtitle exactly when a subtitle
\* was supplied and the "Generado:" stamp exactly once in all four cases;
\* no later page carries any text other than its footer.
C13_HeaderOnPageOne ==
    (fn = "exportToPdf" /\ pdf # NoPdf /\ pc \notin {"single", "first"}) =>
        /\ Cardinality(TextsOfKind(pdf.pages[1], "title")) = IF HasTitle THEN 1 ELSE 0
        /\ \A k \in TextsOfKind(pdf.pages[1], "title") :
              pdf.pages[1].texts[k].s = options.title
        /\ Cardinality(TextsOfKind(pdf.pages[1], "subtitle")) = IF HasSubtitle THEN 1 ELSE 0
        /\ \A k \in TextsOfKind(pdf.pages[1], "subtitle") :
              pdf.pages[1].texts[k].s = options.subtitle
        /\ Cardinality(TextsOfKind(pdf.pages[1], "date")) = 1
        /\ \A p \in 2..Len(pdf.pages) :
              \A k \in 1..Len(pdf.pages[p].texts) : pdf.pages[p].texts[k].kind = "footer"

C13_Witness ==
    /\ fn = "exportToPdf" /\ pc = "done"
    /\ ~HasTitle /\ ~HasSubtitle
    /\ Len(pdf.pages) >= 2
    /\ Cardinality(TextsOfKind(pdf.pages[1], "date")) = 1

\* C14: every page i of a document saved by exportViewToPdf with N pages
\* carries the footer "page i of N".
C14_ViewFooters ==
    (fn = "exportViewToPdf" /\ saved # <<>>) =>
        \A p \in 1..Len(pdf.pages) :
            /\ Cardinality(FooterIdx(pdf.pages[p])) = 1
            /\ \A f \in Footers(pdf.pages[p]) : f.a = p /\ f.b = Len(pdf.pages)

C16_OneInFlight ==
    /\ [](/\ inFlight <= 1
          /\ (inFlight = 1) <=> (hpc = "awaiting")
          /\ hpc = "awaiting" => (isExportingPdf /\ PdfButtonDisabled))
    /\ [][(hpc = "awaiting" /\ pc # "start") =>
              (pc' # "start" /\ captureCalls' >= captureCalls)]_vars

C16_Witness ==
    /\ mounted = "BalanceSheet"
    /\ hpc = "awaiting" /\ pc = "capture"
    /\ ~isLoading
    /\ isExportingPdf
    /\ inFlight = 1

\* C17: once handleExportPdf has started an export, isExportingPdf is
\* eventually false again, after a resolved and after a rejected call alike;
\* it is true exactly while that call is pending; and while no period is
\* selected no step sets the flag or starts an export.
C17_FlagCleared ==
    /\ isExportingPdf ~> ~isExportingPdf
    /\ (isExportingPdf /\ pc = "done") ~> (~isExportingPdf /\ pc = "done")
    /\ (isExportingPdf /\ pc = "raised") ~> (~isExportingPdf /\ pc = "raised")
    /\ [](/\ isExportingPdf <=> (hpc = "awaiting")
          /\ hpc = "awaiting" => (pc # "idle" /\ inFlight = 1)
          /\ hpc = "returned" => inFlight = 0)
    /\ [][(selectedPeriod = NoPeriod /\ hpc # "awaiting") =>
              /\ isExportingPdf' = isExportingPdf
              /\ hpc' # "awaiting"
              /\ inFlight' = inFlight
              /\ pc' = pc
              /\ captureCalls' = captureCalls]_vars

C17_Witness ==
    /\ mounted = "FinancialRatios"
    /\ hpc = "finished"
    /\ pc = "raised"
    /\ ~isExportingPdf
    /\ inFlight = 0

\* C18: a run of handleExportPdf that called exportToPdf has shown no
\* notification while the call is pending and exactly one after it: the
\* success toast when the call resolved and the file was saved, the error
\* toast when it rejected.
C18_OneToast ==
    /\ hpc = "awaiting" => toasts = <<>>
    /\ hpc = "finished" =>
          /\ Len(toasts) = 1
          /\ toasts[1] \in {"success", "error"}
          /\ toasts[1] = "success" <=> (pc = "done" /\ Len(saved) = 1 /\ error = NoError)
          /\ toasts[1] = "error" <=> (pc = "raised" /\ error # NoError)

C18_Witness ==
    /\ hpc = "finished"
    /\ toasts = <<"success">>
    /\ Len(saved) = 1
    /\ mounted = "CashFlow"

\* The actions of the user that the page and the header offer.
UserAction ==
    \/ U_SelectPeriod
    \/ U_SelectCooperative
    \/ U_Search
    \/ U_StatusFilter
    \/ U_ToggleSection
    \/ X_Click

\* C19: while a page's exportToPdf call is in flight, no action of the user
\* changes what the captured region shows.
C19_RegionFrozen ==
    [][(isExportingPdf /\ UserAction) => RegionContent' = RegionContent]_vars

\* The two invocations of a pair, by their number.
Invocation(k) == IF k = turn THEN Locals ELSE parked
SavedAs(name) == {k \in 1..Len(saved) : saved[k] = name}

\* What invocation k produced follows from its own arguments and bitmap.
OwnResult(k) ==
    LET v == Invocation(k)
        N == Len(v.pdf.pages)
    IN  /\ v.elementId = PairArgs[k].elementId
        /\ v.options = PairArgs[k].options
        /\ v.captureCalls <= 1
        /\ Cardinality(SavedAs(SaveName(PairArgs[k].options.filename))) =
               IF v.pc = "done" THEN 1 ELSE 0
        /\ v.pc = "done" =>
              /\ N = IF v.slices = <<>> THEN 1 ELSE Len(v.slices)
              /\ v.slices = <<>> <=>
                    ~NeedsMultiplePages(ScaledImgHeight(v.canvas, Scale(v.canvas)),
                                        PairArgs[k].options)
              /\ \A p \in 1..Len(v.slices) :
                    /\ v.slices[p].pageIndex = p
                    /\ Len(v.pdf.pages[p].images) = IF v.slices[p].placed THEN 1 ELSE 0
                    /\ \A n \in 1..Len(v.pdf.pages[p].images) :
                          /\ v.pdf.pages[p].images[n].sy = v.slices[p].sy
                          /\ v.pdf.pages[p].images[n].rows = v.slices[p].rows
              /\ v.slices # <<>> =>
                    v.slices[1].rows =
                        CanvasDim(MathMin(FirstPagePixelHeight(PixelsPerMm(v.canvas),
                                                               PairArgs[k].options),
                                          Num(v.canvas.height)))
              /\ \A p \in 1..N :
                    /\ Cardinality(FooterIdx(v.pdf.pages[p])) = 1
                    /\ \A f \in Footers(v.pdf.pages[p]) : f.a = p /\ f.b = N
              /\ \A t \in TextsOfKind(v.pdf.pages[1], "title") :
                    v.pdf.pages[1].texts[t].s = PairArgs[k].options.title
              /\ Cardinality(TextsOfKind(v.pdf.pages[1], "title")) =
                    IF PairArgs[k].options.title = "" THEN 0 ELSE 1

\* C20: two exportToPdf invocations in flight at once share no state: the
\* page count, slices, footer labels and file name of each follow from its
\* own arguments and bitmap, and each completed invocation has saved its
\* own file, once.
C20_Independent ==
    turn # 0 =>
        /\ OwnResult(1)
        /\ OwnResult(2)
        /\ Len(saved) = Cardinality({k \in 1..2 : Invocation(k).pc = "done"})

C20_Witness ==
    /\ turn = 1
    /\ pc = "done" /\ parked.pc = "done"
    /\ Len(saved) = 2
    /\ saved[1] = SaveName(PairArgs[2].options.filename)
    /\ Len(pdf.pages) = 2 /\ Len(parked.pdf.pages) = 1

\* C21: in exportToPdf every image of page 1 is placed at y = headerHeight,
\* the height that firstPageContentHeight is computed from, whatever the
\* title and subtitle and on the single-page and the multi-page path alike;
\* every image of a later page is placed at y = marginTop.
C21_PlacementY ==
    (fn = "exportToPdf" /\ pdf # NoPdf) =>
        \A p \in 1..Len(pdf.pages) :
            \A n \in 1..Len(pdf.pages[p].images) :
                /\ p = 1 =>
                      /\ pdf.pages[p].images[n].y = HeaderHeight(options)
                      /\ pdf.pages[p].images[n].y =
                            pdfHeight - marginBottom - FirstPageContentHeight(options)
                /\ p >= 2 => pdf.pages[p].images[n].y = marginTop

C21_Witness ==
    /\ fn = "exportToPdf" /\ pc = "done"
    /\ ~HasTitle /\ HasSubtitle
    /\ Len(pdf.pages) >= 2
    /\ Len(pdf.pages[1].images) = 1 /\ pdf.pages[1].images[1].y = 20
    /\ Len(pdf.pages[2].images) = 1 /\ pdf.pages[2].images[1].y = 10

\* C22: every page of every document saved by exportToPdf or exportViewToPdf
\* holds exactly one content image: no document is saved with a page whose
\* slice was not placed.
C22_OneImagePerPage ==
    (pc = "done" /\ saved # <<>>) =>
        \A p \in 1..Len(pdf.pages) : Len(pdf.pages[p].images) = 1

\* C23: every placed image stays inside the content box of its page: its left
\* edge is at the side margin, its width is the content width, and its top
\* plus its height does not pass the page height minus the bottom margin
\* (282 mm in exportToPdf, the effective page height minus 10 in
\* exportViewToPdf).
C23_InsideContentBox ==
    (pdf # NoPdf) =>
        \A p \in 1..Len(pdf.pages) :
            \A n \in 1..Len(pdf.pages[p].images) :
                IF fn = "exportToPdf"
                THEN /\ pdf.pages[p].images[n].x = marginX
                     /\ pdf.pages[p].images[n].w = contentWidth
                     /\ NumLe(pdf.pages[p].images[n].h,
                              Num(pdfHeight - marginBottom - pdf.pages[p].images[n].y))
                ELSE /\ pdf.pages[p].images[n].x = margin
                     /\ pdf.pages[p].images[n].w = EffectiveContentWidth(canvas)
                     /\ NumLe(pdf.pages[p].images[n].h,
                              Num(EffectivePdfHeight(canvas) - margin
                                      - pdf.pages[p].images[n].y))

\* The slicing of exportToPdf's multi-page path with the content width and
\* the two content heights as parameters: the <<start row, canvas rows>> of
\* the slices it cuts from bitmap cv.
RECURSIVE PaginatorLoop(_, _, _, _)
PaginatorLoop(budget, remaining, currentY, acc) ==
    IF ~NumGt(remaining, Zero)
    THEN acc
    ELSE Bind1(MathMin(budget, remaining), LAMBDA pagePixelHeightP :
             PaginatorLoop(budget, NumSub(remaining, pagePixelHeightP),
                           NumAdd(currentY, pagePixelHeightP),
                           Append(acc, <<currentY, CanvasDim(pagePixelHeightP)>>)))

Paginator(cv, cWidth, firstHeight, otherHeight) ==
    Bind1(NumDivInt(cv.width, cWidth), LAMBDA ppm :
        Bind1(NumMul(Num(firstHeight), ppm), LAMBDA firstPagePixelHeightP :
            PaginatorLoop(NumMul(Num(otherHeight), ppm),
                          NumSub(Num(cv.height), firstPagePixelHeightP),
                          firstPagePixelHeightP,
                          << <<Zero, CanvasDim(MathMin(firstPagePixelHeightP,
                                                       Num(cv.height)))>> >>)))

\* C24: exportViewToPdf is the exportToPdf slicing algorithm with the view
\* geometry ((297, 210) landscape, (210, 297) portrait, content width
\* effW - 20, both budgets effH - 20): it cuts the same slices as that
\* paginator, the slices are contiguous from row 0 and sum to the bitmap
\* height, and every image is placed at (margin, margin).
C24_ViewIsPaginator ==
    (fn = "exportViewToPdf" /\ pc \in {"save", "done"}) =>
        /\ <<EffectivePdfWidth(canvas), EffectivePdfHeight(canvas)>> =
               IF pdf.orientation = "landscape" THEN <<297, 210>> ELSE <<210, 297>>
        /\ EffectiveContentWidth(canvas) = EffectivePdfWidth(canvas) - 20
        /\ EffectiveContentHeight(canvas) = EffectivePdfHeight(canvas) - 20
        /\ \A p \in 1..Len(pdf.pages) :
               \A n \in 1..Len(pdf.pages[p].images) :
                   /\ pdf.pages[p].images[n].x = margin
                   /\ pdf.pages[p].images[n].y = margin
        /\ slices # <<>> =>
               /\ [k \in 1..Len(slices) |-> <<slices[k].sy, slices[k].rows>>]
                      = Paginator(canvas, EffectiveContentWidth(canvas),
                                  EffectiveContentHeight(canvas),
                                  EffectiveContentHeight(canvas))
               /\ slices[1].sy = Zero
               /\ \A k \in 1..(Len(slices) - 1) :
                      slices[k + 1].sy = NumAdd(slices[k].sy, Num(slices[k].rows))
               /\ NumAdd(slices[Len(slices)].sy, Num(slices[Len(slices)].rows))
                      = Num(canvas.height)

\* C25: in the multi-page paths of both functions every slice except the
\* last has exactly the full per-page pixel budget (firstPageContentHeight x
\* pixelsPerMm on page 1 of exportToPdf, the other-page budget afterwards;
\* effectiveContentHeight x pixelsPerMm in exportViewToPdf), and the last
\* slice has exactly the rows still remaining and at least one row: no empty
\* trailing page.
C25_FullBudgetSlices ==
    (pc \in {"footers", "save", "done"} /\ slices # <<>>) =>
        /\ \A k \in 1..(Len(slices) - 1) :
               Num(slices[k].rows) =
                   IF fn = "exportViewToPdf"
                   THEN NumMul(Num(EffectiveContentHeight(canvas)), pixelsPerMm)
                   ELSE IF k = 1
                        THEN FirstPagePixelHeight(pixelsPerMm, options)
                        ELSE NumMul(Num(otherPageContentHeight), pixelsPerMm)
        /\ Num(slices[Len(slices)].rows) =
               NumSub(Num(canvas.height), slices[Len(slices)].sy)
        /\ slices[Len(slices)].rows > 0

\* C26: in exportToPdf needsMultiplePages is true exactly when the saved
\* document has at least 2 pages: on the multi-page path page 1 receives
\* strictly fewer rows than the bitmap height, remainingPixelHeight is
\* strictly positive before the loop, and at least one more page is appended.
C26_MultiIffTwoPages ==
    /\ (fn = "exportToPdf" /\ pc = "done" /\ saved # <<>>) =>
          /\ NeedsMultiplePages(scaledImgHeight, options) <=> Len(pdf.pages) >= 2
          /\ MultiPath => slices[1].rows < canvas.height
    /\ (fn = "exportToPdf" /\ pc = "loop" /\ Len(slices) = 1) =>
          NumGt(remainingPixelHeight, Zero)

\* C27: both functions terminate (save or raise) also for a bitmap of pixel
\* width 0 and pixel height >= 1: the slicing loop is either not entered or
\* consumes a positive number of rows in each iteration.
C27_DegenerateTerminates ==
    /\ (canvas.width = 0 /\ pc = "geometry") ~> (pc \in {"done", "raised"})
    /\ [][(canvas.width = 0 /\ pc = "loop" /\ pc' = "loop") =>
              NumLt(remainingPixelHeight', remainingPixelHeight)]_vars

\* C28: on every report page, once every pending request of the data effect
\* has settled, the rows displayed are those of the selected period and
\* cooperative, in whatever order overlapping requests were answered.
C28_DataOfSelection ==
    (mounted # "none" /\ requests = <<>> /\ dataOf # NoRequest) =>
        dataOf = [period |-> selectedPeriod, cooperative |-> selectedCooperative]

\* C29: on every report page isLoading is true, and so the Excel and the PDF
\* button are disabled, whenever a request of the data effect is pending,
\* overlapping requests included.
C29_LoadingWhilePending ==
    (mounted # "none" /\ requests # <<>>) =>
        /\ isLoading
        /\ mounted # "FinancialRatios" => (ExcelButtonDisabled /\ PdfButtonDisabled)

====
